---- MODULE Spec2Model ----
(***************************************************************************)
(* State-machine model of tomosaic's registration and blending core:       *)
(*   tomosaic/register/register_translation.py  (register_translation)     *)
(*   tomosaic/merge/merge.py                    (blend and its strategies) *)
(*                                                                         *)
(* Every behaviour is one caller's session: from the initial state one     *)
(* complete call is made by a caller that owns two arrays, img1 and img2.  *)
(* After the call the state holds the arrays as the call left them, the    *)
(* arguments (args) and the outcome (ret).                                 *)
(* CallAgain repeats the last strategy call on the arrays as they are.     *)
(*                                                                         *)
(* Arrays are integer valued; NaN is the "no data" sentinel.  Quantities   *)
(* the code computes in floating point by a filter or an iterative solver  *)
(* (gaussian_filter, bicg, the blended pyramid patch) are represented by   *)
(* fresh codes that are distinct from every source pixel.                  *)
(***************************************************************************)
EXTENDS Integers, Sequences, FiniteSets, TLC

VARIABLES img1, img2, op, args, ret

vars == <<img1, img2, op, args, ret>>

(* ------------------------------------------------------------------ *)
(* Bounds of the model                                                 *)
(* ------------------------------------------------------------------ *)
\* largest side of a small image
MaxDim == 4
\* largest small shift on an axis
MaxShift == 3
\* largest pyramid margin and depth a caller passes
MaxMargin == 2
MaxDepth == 2

(* ------------------------------------------------------------------ *)
(* Numbers                                                             *)
(* ------------------------------------------------------------------ *)
Abs(x) == IF x < 0 THEN -x ELSE x
Max2(a, b) == IF a >= b THEN a ELSE b
Min2(a, b) == IF a <= b THEN a ELSE b
CeilHalf(n) == (n + 1) \div 2

RECURSIVE Pow2(_)
Pow2(k) == IF k = 0 THEN 1 ELSE 2 * Pow2(k - 1)

RECURSIVE BitLength(_)
BitLength(n) == IF n <= 0 THEN 0 ELSE 1 + BitLength(n \div 2)

RECURSIVE Gcd(_, _)
Gcd(a, b) == IF b = 0 THEN a ELSE Gcd(b, a % b)

\* A Python/numpy scalar as an exact fraction n/d, d > 0, in lowest terms.
Rat(n, d) == LET g == Gcd(Abs(n), d) IN [n |-> n \div g, d |-> d \div g]
RInt(k) == [n |-> k, d |-> 1]

\* np.array(value, dtype='float32') on a dyadic value n/2^k: the mantissa is
\* rounded to 24 bits, ties to even.
Float32Mantissa == 24
AsFloat32(v) ==
    LET bits == BitLength(Abs(v.n))
    IN  IF bits <= Float32Mantissa THEN v
        ELSE LET s    == Pow2(bits - Float32Mantissa)
                 q    == Abs(v.n) \div s
                 r    == Abs(v.n) % s
                 up   == (2 * r > s) \/ (2 * r = s /\ q % 2 = 1)
                 m    == IF up THEN q + 1 ELSE q
                 sign == IF v.n < 0 THEN -1 ELSE 1
             IN  IF v.d >= s THEN Rat(sign * m, v.d \div s)
                 ELSE Rat(sign * m * (s \div v.d), 1)

(* ------------------------------------------------------------------ *)
(* Arrays                                                              *)
(* ------------------------------------------------------------------ *)
\* the "no data" sentinel
NaN == -1

Cells(h, w) == (0 .. h - 1) \X (0 .. w - 1)

\* a 2-D array: shape (h, w), values px[<<y, x>>] / den
Image(h, w, px) == [h |-> h, w |-> w, den |-> 1, px |-> px]
\* no array at all (a call that raised returns nothing)
NoImage == [h |-> 0, w |-> 0, den |-> 1, px |-> <<>>]

IsNan(v) == v = NaN
Shape(a) == <<a.h, a.w>>

\* a local variable holds a computed value: the value of v, worked out once
Materialise(v) == CHOOSE g \in {v} : g = g

\* contents of the caller's arrays: every finite pixel of img1 and of img2
\* has its own value
Img1Val(y, x) == 100 + 16 * y + x
Img2Val(y, x) == 500 + 16 * y + x
\* gaussian_filter(img2, 10)[y, x]
BlurVal(y, x) == 1000 + 16 * y + x
\* k-th component of the vector bicg returns
SolvedVal(k) == 2000 + k
\* pixel (y, x) of the collapsed blended pyramid
BlendedVal(y, x) == 3000 + 16 * y + x

MakeImg1(h, w, nans) ==
    Image(h, w, [c \in Cells(h, w) |-> IF c \in nans THEN NaN ELSE Img1Val(c[1], c[2])])
MakeImg2(h, w, nans) ==
    Image(h, w, [c \in Cells(h, w) |-> IF c \in nans THEN NaN ELSE Img2Val(c[1], c[2])])

\* Python slice a[lo:hi] on an axis of length n: the indices it selects
SliceNorm(i, n) == IF i < 0 THEN Max2(i + n, 0) ELSE Min2(i, n)
SliceLo(lo, n) == SliceNorm(lo, n)
SliceLen(lo, hi, n) == Max2(SliceNorm(hi, n) - SliceNorm(lo, n), 0)

\* a[y0:y1, x0:x1] as an array of its own (values only)
SubImage(a, y0, y1, x0, x1) ==
    LET ylo == SliceLo(y0, a.h)
        xlo == SliceLo(x0, a.w)
        hh  == SliceLen(y0, y1, a.h)
        ww  == SliceLen(x0, x1, a.w)
    IN  [h |-> hh, w |-> ww, den |-> a.den,
         px |-> [c \in Cells(hh, ww) |-> a.px[<<ylo + c[1], xlo + c[2]>>]]]

(* ------------------------------------------------------------------ *)
(* Collaborators outside the core (morph)                              *)
(* ------------------------------------------------------------------ *)
\* morph.get_roughshift: the integer-rounded shift; shifts of the model are
\* whole pixels already
get_roughshift(shift) == shift

\* morph.arrange_image: img1 at the origin, img2 offset by shift, on a canvas
\* that is the bounding box of both; the image selected by order is the base
\* layer, the other one is laid over it where it holds data; the rest is NaN.
arrange_image(a1, a2, shift, order) ==
    LET hh == Max2(a1.h, a2.h + shift[1])
        ww == Max2(a1.w, a2.w + shift[2])
        In1(y, x) == y < a1.h /\ x < a1.w
        In2(y, x) == /\ y >= shift[1] /\ y < shift[1] + a2.h
                     /\ x >= shift[2] /\ x < shift[2] + a2.w
        V1(y, x) == IF In1(y, x) THEN a1.px[<<y, x>>] ELSE NaN
        V2(y, x) == IF In2(y, x) THEN a2.px[<<y - shift[1], x - shift[2]>>] ELSE NaN
        Top(y, x)  == IF order = 1 THEN V2(y, x) ELSE V1(y, x)
        Base(y, x) == IF order = 1 THEN V1(y, x) ELSE V2(y, x)
    IN  Image(hh, ww, [c \in Cells(hh, ww) |->
                          IF IsNan(Top(c[1], c[2])) THEN Base(c[1], c[2]) ELSE Top(c[1], c[2])])

(* ------------------------------------------------------------------ *)
(* Outcome of a strategy call                                          *)
(* ------------------------------------------------------------------ *)
\* status: "ok" or the exception raised; calls: what ran, in order;
\* out: the returned array; i1: the caller's img1 as the call left it;
\* aux: intermediate structures of the strategy
Outcome(status, calls, out, i1, aux) ==
    [status |-> status, calls |-> calls, out |-> out, i1 |-> i1, aux |-> aux]
NoAux == [kind |-> "none"]

(* ------------------------------------------------------------------ *)
(* SimpleBlend: img_merge_alpha, img_merge_max, img_merge_min          *)
(* ------------------------------------------------------------------ *)
\* own default of img_merge_alpha
AlphaOwnDefault == Rat(2, 5)

\* variant: the weights of the two canvases change places
img_merge_alpha_swapped(a1, a2, shift, alpha) ==
    LET newimg1 == arrange_image(a1, a2, shift, 1)
        newimg2 == arrange_image(a1, a2, shift, 2)
        Mix(p, q) == IF IsNan(p) \/ IsNan(q) THEN NaN
                     ELSE alpha.n * q + (alpha.d - alpha.n) * p
        final == [h |-> newimg1.h, w |-> newimg1.w, den |-> alpha.d,
                  px |-> [c \in Cells(newimg1.h, newimg1.w) |->
                             Mix(newimg1.px[c], newimg2.px[c])]]
    IN  Outcome("ok", <<"arrange_image", "arrange_image", "img_merge_alpha">>,
                final, a1, NoAux)

\* alpha * newimg1 + (1 - alpha) * newimg2, elementwise; NaN operands give NaN
img_merge_alpha(a1, a2, shift, alpha) ==
    LET newimg1 == arrange_image(a1, a2, shift, 1)
        newimg2 == arrange_image(a1, a2, shift, 2)
        Mix(p, q) == IF IsNan(p) \/ IsNan(q) THEN NaN
                     ELSE alpha.n * p + (alpha.d - alpha.n) * q
        final == [h |-> newimg1.h, w |-> newimg1.w, den |-> alpha.d,
                  px |-> [c \in Cells(newimg1.h, newimg1.w) |->
                             Mix(newimg1.px[c], newimg2.px[c])]]
    IN  Outcome("ok", <<"arrange_image", "arrange_image", "img_merge_alpha">>,
                final, a1, NoAux)

\* np.dstack((newimg1, newimg2)).max(2): NaN wherever either layer is NaN
img_merge_max(a1, a2, shift) ==
    LET newimg1 == arrange_image(a1, a2, shift, 1)
        newimg2 == arrange_image(a1, a2, shift, 2)
        Pick(p, q) == IF IsNan(p) \/ IsNan(q) THEN NaN ELSE Max2(p, q)
        final == Image(newimg1.h, newimg1.w,
                       [c \in Cells(newimg1.h, newimg1.w) |->
                           Pick(newimg1.px[c], newimg2.px[c])])
    IN  Outcome("ok", <<"arrange_image", "arrange_image", "img_merge_max">>,
                final, a1, NoAux)

img_merge_min(a1, a2, shift) ==
    LET newimg1 == arrange_image(a1, a2, shift, 1)
        newimg2 == arrange_image(a1, a2, shift, 2)
        Pick(p, q) == IF IsNan(p) \/ IsNan(q) THEN NaN ELSE Min2(p, q)
        final == Image(newimg1.h, newimg1.w,
                       [c \in Cells(newimg1.h, newimg1.w) |->
                           Pick(newimg1.px[c], newimg2.px[c])])
    IN  Outcome("ok", <<"arrange_image", "arrange_image", "img_merge_min">>,
                final, a1, NoAux)

(* ------------------------------------------------------------------ *)
(* PoissonBlend: img_merge_poisson and its helpers                     *)
(* ------------------------------------------------------------------ *)
\* the blend is active only when the shift reaches this on some axis
PoissonMinShift == 10

\* value of a canvas cell, NaN outside the canvas (newimg_expand of _find_bound)
CanvasAt(a, y, x) ==
    IF y >= 0 /\ y < a.h /\ x >= 0 /\ x < a.w THEN a.px[<<y, x>>] ELSE NaN

\* corners of img2 on the canvas: upper left and bottom right, both inside
_get_corner(shift, shape) ==
    <<<<shift[1], shift[2]>>, <<shift[1] + shape[1] - 1, shift[2] + shape[2] - 1>>>>

\* _find_bound: the cells of img2 left True; a cell of the rectangle's edge
\* becomes False when the canvas cell next to it outside the rectangle holds
\* data
_find_bound(shape, corner, newimg) ==
    LET h  == shape[1]
        w  == shape[2]
        y0 == corner[1][1]
        x0 == corner[1][2]
        y1 == corner[2][1]
        x1 == corner[2][2]
        Top(c)    == c[1] = 0     /\ ~IsNan(CanvasAt(newimg, y0 - 1, x0 + c[2]))
        Right(c)  == c[2] = w - 1 /\ ~IsNan(CanvasAt(newimg, y0 + c[1], x1 + 1))
        Bottom(c) == c[1] = h - 1 /\ ~IsNan(CanvasAt(newimg, y1 + 1, x0 + c[2]))
        Left(c)   == c[2] = 0     /\ ~IsNan(CanvasAt(newimg, y0 + c[1], x0 - 1))
    IN  {c \in Cells(h, w) : ~(Top(c) \/ Right(c) \/ Bottom(c) \/ Left(c))}

\* variant: every cell of the rectangle is an unknown
InteriorCellsAndEdges(h, w) == Cells(h, w)

\* img2_boo of img_merge_poisson: everything but the outermost rows and columns
InteriorCells(h, w) ==
    {c \in Cells(h, w) : c[1] > 0 /\ c[1] < h - 1 /\ c[2] > 0 /\ c[2] < w - 1}

\* position of cell c among the True cells of a mask, in row-major order
\* (the order of numpy's boolean-mask indexing)
MaskIndex(boo, w, c) ==
    Cardinality({d \in boo : d[1] * w + d[2] < c[1] * w + c[2]})

\* variant: the diagonal counts the neighbours that are unknowns themselves
MatrixDiagUnknownNeighbours(boo, h, w, c) ==
    Cardinality({d \in boo : Abs(d[1] - c[1]) + Abs(d[2] - c[2]) = 1})

\* img2_count[c]: 4, less one for each edge of the rectangle the cell lies on
MatrixDiag(boo, h, w, c) ==
    4 - (IF c[2] = 0 THEN 1 ELSE 0) - (IF c[1] = 0 THEN 1 ELSE 0)
      - (IF c[2] = w - 1 THEN 1 ELSE 0) - (IF c[1] = h - 1 THEN 1 ELSE 0)

\* _matrix_builder(img2_boo): the matrix A of A x = b, or the exception
_matrix_builder(boo, h, w) ==
    LET n       == Cardinality(boo)
        row_int == w - 2
        K(c)    == MaskIndex(boo, w, c)
        U == {c \in boo : <<c[1] - 1, c[2]>> \in boo}
        D == {c \in boo : <<c[1] + 1, c[2]>> \in boo}
        L == {c \in boo : <<c[1], c[2] - 1>> \in boo}
        R == {c \in boo : <<c[1], c[2] + 1>> \in boo}
        \* (row, column) of every appended -1
        Off == [dir \in {"u", "d", "l", "r"} |->
                  CASE dir = "u" -> {<<K(c), K(c) - row_int>> : c \in U}
                    [] dir = "d" -> {<<K(c), K(c) + row_int>> : c \in D}
                    [] dir = "l" -> {<<K(c), K(c) - 1>> : c \in L}
                    [] dir = "r" -> {<<K(c), K(c) + 1>> : c \in R}]
        AllOff == Off["u"] \cup Off["d"] \cup Off["l"] \cup Off["r"]
        Hits(i, j) == Cardinality({dir \in {"u", "d", "l", "r"} : <<i, j>> \in Off[dir]})
        Diag(i) == LET c == CHOOSE c \in boo : K(c) = i IN MatrixDiag(boo, h, w, c)
    IN  IF \E S \in {U, D, L, R} : Cardinality(S) = 1
        THEN \* np.squeeze leaves a 0-d array, len() of it raises
             [status |-> "TypeError", n |-> n, A |-> <<>>]
        ELSE IF \E e \in AllOff : e[2] < 0 \/ e[2] >= n
        THEN [status |-> "ValueError", n |-> n, A |-> <<>>]
        ELSE [status |-> "ok", n |-> n,
              A |-> [e \in (0 .. n - 1) \X (0 .. n - 1) |->
                        (IF e[1] = e[2] THEN Diag(e[1]) ELSE 0) - Hits(e[1], e[2])]]

\* a + b with NaN propagating
NanAdd(a, b) == IF IsNan(a) \/ IsNan(b) THEN NaN ELSE a + b

\* _const_builder(img2_boo, img1_bound, img2): b[k] for every unknown, NaN when
\* a NaN enters the sum
_const_builder(boo, spot, a2) ==
    LET h == a2.h
        w == a2.w
        Nb(c) == <<<<c[1] - 1, c[2]>>, <<c[1] + 1, c[2]>>, <<c[1], c[2] - 1>>, <<c[1], c[2] + 1>>>>
        Inside(c) == c \in Cells(h, w)
        \* img2_bound padded with 0: the spot on the non-unknown cells
        Bound(c) == IF Inside(c) /\ c \notin boo THEN spot.px[c] ELSE 0
        Src(c)   == IF Inside(c) THEN a2.px[c] ELSE 0
        Sum4(F(_), c) == NanAdd(NanAdd(F(Nb(c)[1]), F(Nb(c)[2])),
                                NanAdd(F(Nb(c)[3]), F(Nb(c)[4])))
        Lap(c) == IF IsNan(Src(c)) \/ IsNan(Sum4(Src, c)) THEN NaN
                  ELSE 4 * Src(c) - Sum4(Src, c)
        cellOf(k) == CHOOSE c \in boo : MaskIndex(boo, w, c) = k
    IN  [k \in 0 .. Cardinality(boo) - 1 |-> NanAdd(Sum4(Bound, cellOf(k)), Lap(cellOf(k)))]

\* variant: the solved vector is scattered over the whole rectangle
ScatterCellsWholeRect(h, w) == Cells(h, w)

\* which cells the solved vector is scattered into: spot[img2_boo] = x
ScatterCells(h, w) == InteriorCells(h, w)

\* img_merge_poisson from "spot[img2_boo] = x" on: the system is solved and the
\* solution scattered
PoissonSolved(a1, a2, shift, stage2, known, gap, sys, b) ==
    LET newimg  == arrange_image(a1, a2, shift, 1)
        corner  == _get_corner(get_roughshift(shift), Shape(a2))
        y0      == corner[1][1]
        x0      == corner[1][2]
        InRect(c) == /\ c[1] >= y0 /\ c[1] < y0 + a2.h
                     /\ c[2] >= x0 /\ c[2] < x0 + a2.w
        Rel(c)  == <<c[1] - y0, c[2] - x0>>
        nanB    == \E k \in DOMAIN b : IsNan(b[k])
        \* x = lng.bicg(A, b)[0]
        X(k)    == IF nanB THEN NaN ELSE SolvedVal(k)
        scatter == ScatterCells(a2.h, a2.w)
        final   == [c \in Cells(newimg.h, newimg.w) |->
                      IF InRect(c) /\ Rel(c) \in scatter
                      THEN X(MaskIndex(scatter, a2.w, Rel(c)))
                      ELSE stage2[c]]
    IN  Outcome("ok", <<"arrange_image", "_find_bound", "_matrix_builder",
                        "_const_builder", "bicg">>,
                Image(newimg.h, newimg.w, final), a1,
                [kind |-> "poisson", corner |-> corner, known |-> known,
                 unknown |-> InteriorCells(a2.h, a2.w), gap |-> gap, A |-> sys.A, b |-> b])

\* img_merge_poisson from "img2_boo = np.ones(...)" on, with the mask
\* _find_bound returned (part)
PoissonOnBound(a1, a2, shift, part, sys) ==
    LET newimg  == arrange_image(a1, a2, shift, 1)
        corner  == _get_corner(get_roughshift(shift), Shape(a2))
        y0      == corner[1][1]
        x0      == corner[1][2]
        img2_boo == InteriorCells(a2.h, a2.w)
        border  == Cells(a2.h, a2.w) \ img2_boo
        known   == Cells(a2.h, a2.w) \ part
        gap     == (border \ known) \cup (known \ border)
        anyNan2 == \E c \in Cells(a2.h, a2.w) : IsNan(a2.px[c])
        Blur(c) == IF anyNan2 THEN NaN ELSE BlurVal(c[1], c[2])
        InRect(c) == /\ c[1] >= y0 /\ c[1] < y0 + a2.h
                     /\ c[2] >= x0 /\ c[2] < x0 + a2.w
        Rel(c)  == <<c[1] - y0, c[2] - x0>>
        \* the canvas after the boundary overwrite and the embroidery
        stage2  == [c \in Cells(newimg.h, newimg.w) |->
                      IF InRect(c) /\ Rel(c) \in gap THEN Blur(Rel(c))
                      ELSE IF InRect(c) /\ Rel(c) \in known THEN a1.px[c]
                      ELSE newimg.px[c]]
    IN  IF \E c \in known : c[1] + y0 >= a1.h \/ c[2] + x0 >= a1.w
        THEN \* img1[[bound_y, bound_x]] reads outside img1
             Outcome("IndexError", <<"arrange_image", "_find_bound">>, NoImage, a1, NoAux)
        ELSE IF sys.status # "ok"
        THEN Outcome(sys.status, <<"arrange_image", "_find_bound", "_matrix_builder">>,
                     NoImage, a1, NoAux)
        ELSE CHOOSE o \in
                 {PoissonSolved(a1, a2, shift, canvas, known, gap, sys, b) :
                     canvas \in {Materialise(stage2)},
                     b \in {Materialise(_const_builder(
                                img2_boo,
                                [h |-> a2.h, w |-> a2.w, den |-> 1,
                                 px |-> [c \in Cells(a2.h, a2.w) |->
                                            stage2[<<c[1] + y0, c[2] + x0>>]]],
                                a2))}} : TRUE

img_merge_poisson(a1, a2, shift) ==
    IF Abs(shift[1]) < PoissonMinShift /\ Abs(shift[2]) < PoissonMinShift
    THEN Outcome("ok", <<"arrange_image">>, arrange_image(a1, a2, shift, 1), a1, NoAux)
    ELSE CHOOSE o \in
             {PoissonOnBound(a1, a2, shift, part, sys) :
                 part \in {_find_bound(Shape(a2), _get_corner(get_roughshift(shift), Shape(a2)),
                                       arrange_image(a1, a2, shift, 1))},
                 sys \in {Materialise(_matrix_builder(InteriorCells(a2.h, a2.w), a2.h, a2.w))}} :
             TRUE

(* ------------------------------------------------------------------ *)
(* PyramidBlend: shapes of the pyramid levels                          *)
(* ------------------------------------------------------------------ *)
\* shapes that cannot be combined
BadShape == <<-1, -1>>

\* numpy broadcasting of two 2-D shapes
BroadcastDim(m, n) == IF m = n THEN m ELSE IF m = 1 THEN n ELSE IF n = 1 THEN m ELSE -1
Broadcast(s, t) ==
    IF s = BadShape \/ t = BadShape THEN BadShape
    ELSE IF BroadcastDim(s[1], t[1]) < 0 \/ BroadcastDim(s[2], t[2]) < 0 THEN BadShape
    ELSE <<BroadcastDim(s[1], t[1]), BroadcastDim(s[2], t[2])>>

\* variant: the odd trailing row and column are dropped by the reduction
ReduceShapeFloor(s) == <<s[1] \div 2, s[2] \div 2>>

\* _ireduce: a same-size convolution, then every second row and column
ReduceShape(s) == <<CeilHalf(s[1]), CeilHalf(s[2])>>
\* _iexpand: twice the rows and columns
ExpandShape(s) == <<2 * s[1], 2 * s[2]>>
\* np.delete(egu, -1, axis) when the expanded level is larger on that axis
TrimShape(s, ref) ==
    <<IF s[1] > ref[1] THEN s[1] - 1 ELSE s[1], IF s[2] > ref[2] THEN s[2] - 1 ELSE s[2]>>

\* _gauss_pyramid: levels + 1 shapes
RECURSIVE GaussShapes(_, _)
GaussShapes(s, levels) ==
    IF levels = 0 THEN <<s>> ELSE <<s>> \o GaussShapes(ReduceShape(s), levels - 1)

\* _lapl_pyramid: gu - egu for every level but the last, which is kept
LaplShapes(gs) ==
    [i \in 1 .. Len(gs) |->
        IF i = Len(gs) THEN gs[i]
        ELSE Broadcast(gs[i], TrimShape(ExpandShape(gs[i + 1]), gs[i]))]

\* _blend: mask * white + (1 - mask) * black, level by level
BlendShapes(white, black, mask) ==
    [i \in 1 .. Len(mask) |-> Broadcast(Broadcast(mask[i], white[i]), Broadcast(mask[i], black[i]))]

\* _collapse: from the coarsest level down; the shape of what it returns
RECURSIVE CollapseFrom(_, _, _)
CollapseFrom(ls, i, acc) ==
    IF i = 0 THEN acc
    ELSE IF acc = BadShape \/ ls[i] = BadShape THEN BadShape
    ELSE CollapseFrom(ls, i - 1, Broadcast(TrimShape(ExpandShape(acc), ls[i]), ls[i]))
CollapseShape(ls) ==
    IF Len(ls) = 1 THEN ls[1] ELSE CollapseFrom(ls, Len(ls) - 1, ls[Len(ls)])
\* whether _collapse runs its loop at all; with one level it returns the zeros
\* it started from
CollapseIsZeros(ls) == Len(ls) = 1

(* ------------------------------------------------------------------ *)
(* PyramidBlend: the pyramid arithmetic, in exact fractions            *)
(* ------------------------------------------------------------------ *)
RECURSIVE SetGcd(_, _)
SetGcd(S, g) ==
    IF S = {} \/ g = 1 THEN g
    ELSE LET v == CHOOSE v \in S : TRUE IN SetGcd(S \ {v}, Gcd(Abs(v), g))

\* the same array with its fraction in lowest terms
Lowest(a) ==
    LET g == SetGcd({a.px[c] : c \in DOMAIN a.px}, a.den)
    IN  [h |-> a.h, w |-> a.w, den |-> a.den \div g,
         px |-> Materialise([c \in DOMAIN a.px |-> a.px[c] \div g])]

\* _generating_kernel(a) for a = n/d: w_1d = [1/4 - a/2, 1/4, a, 1/4, 1/4 - a/2]
\* as whole numbers over den
_generating_kernel(a) ==
    [w |-> <<a.d - 2 * a.n, a.d, 4 * a.n, a.d, a.d - 2 * a.n>>, den |-> 4 * a.d]

\* boundary='symmetric': the array mirrored about its edges
Reflect(i, n) ==
    LET m == i % (2 * n) IN IF m < n THEN m ELSE 2 * n - 1 - m

\* scipy.signal.convolve2d(image, kernel, mode='same', boundary='symmetric')
\* with the outer product of a 5-tap kernel
Convolve2dSame(a, k) ==
    LET Taps == -2 .. 2
        At(y, x) == a.px[<<Reflect(y, a.h), Reflect(x, a.w)>>]
        RECURSIVE RowSum(_, _, _, _)
        RowSum(y, x, u, v) ==
            IF v > 2 THEN 0
            ELSE k.w[u + 3] * k.w[v + 3] * At(y - u, x - v) + RowSum(y, x, u, v + 1)
        RECURSIVE AllSum(_, _, _)
        AllSum(y, x, u) == IF u > 2 THEN 0 ELSE RowSum(y, x, u, -2) + AllSum(y, x, u + 1)
    IN  [h |-> a.h, w |-> a.w, den |-> a.den * k.den * k.den,
         px |-> [c \in Cells(a.h, a.w) |-> AllSum(c[1], c[2], -2)]]

\* _ireduce: convolve, then outimage[::2, ::2]
_ireduce(image, blur) ==
    LET outimage == Convolve2dSame(image, _generating_kernel(blur))
        s == ReduceShape(Shape(image))
    IN  Lowest([h |-> s[1], w |-> s[2], den |-> outimage.den,
                px |-> [c \in Cells(s[1], s[2]) |-> outimage.px[<<2 * c[1], 2 * c[2]>>]]])

\* _iexpand: the image on the even cells of zeros twice the size, convolved,
\* times 4
_iexpand(image, blur) ==
    LET s == ExpandShape(Shape(image))
        outimage == [h |-> s[1], w |-> s[2], den |-> image.den,
                     px |-> [c \in Cells(s[1], s[2]) |->
                                IF c[1] % 2 = 0 /\ c[2] % 2 = 0
                                THEN image.px[<<c[1] \div 2, c[2] \div 2>>] ELSE 0]]
        conv == Lowest(Convolve2dSame(outimage, _generating_kernel(blur)))
    IN  Lowest([conv EXCEPT !.px = [c \in DOMAIN conv.px |-> 4 * conv.px[c]]])

\* a + sign * b, elementwise, for arrays of one shape
Combine(a, b, sign) ==
    LET l == (a.den \div Gcd(a.den, b.den)) * b.den
    IN  Lowest([h |-> a.h, w |-> a.w, den |-> l,
                px |-> [c \in Cells(a.h, a.w) |->
                           a.px[c] * (l \div a.den) + sign * b.px[c] * (l \div b.den)]])

\* np.delete(egu, -1, axis=0) and np.delete(egu, -1, axis=1) where egu is larger
TrimTo(egu, gu) ==
    LET s == TrimShape(Shape(egu), Shape(gu))
    IN  [h |-> s[1], w |-> s[2], den |-> egu.den,
         px |-> [c \in Cells(s[1], s[2]) |-> egu.px[c]]]

\* _gauss_pyramid(image, levels, blur) with mask=False: the image, then levels
\* reductions
RECURSIVE _gauss_pyramid(_, _, _)
_gauss_pyramid(image, levels, blur) ==
    IF levels = 0 THEN <<image>>
    ELSE <<image>> \o _gauss_pyramid(_ireduce(image, blur), levels - 1, blur)

\* _lapl_pyramid: gu - egu per level, then the last Gaussian level as it is
_lapl_pyramid(gauss_pyr, blur) ==
    [i \in 1 .. Len(gauss_pyr) |->
        IF i = Len(gauss_pyr) THEN gauss_pyr[i]
        ELSE Combine(gauss_pyr[i], TrimTo(_iexpand(gauss_pyr[i + 1], blur), gauss_pyr[i]), -1)]

\* the loop of _collapse: i runs from the last level down to the second; the
\* list loses its last two levels and gains their sum
RECURSIVE CollapseLoop(_, _, _, _)
CollapseLoop(lapl_pyr, i, output, blur) ==
    IF i < 2 THEN output
    ELSE LET lap  == TrimTo(_iexpand(lapl_pyr[i], blur), lapl_pyr[i - 1])
             tmp  == Combine(lap, lapl_pyr[i - 1], 1)
         IN  CollapseLoop(SubSeq(lapl_pyr, 1, i - 2) \o <<tmp>>, i - 1, tmp, blur)

\* _collapse: output starts as zeros of the finest level's shape
_collapse(lapl_pyr, blur) ==
    LET zeros == [h |-> lapl_pyr[1].h, w |-> lapl_pyr[1].w, den |-> 1,
                  px |-> [c \in Cells(lapl_pyr[1].h, lapl_pyr[1].w) |-> 0]]
    IN  CollapseLoop(lapl_pyr, Len(lapl_pyr), zeros, blur)

(* ------------------------------------------------------------------ *)
(* PyramidBlend: img_merge_pyramid                                     *)
(* ------------------------------------------------------------------ *)
\* own defaults of img_merge_pyramid
PyramidOwnMargin == 100
PyramidOwnDepth == 4
PyramidOwnBlur == Rat(2, 5)

\* np.count_nonzero(np.isfinite(...)) over a set of cells of an array
CountFinite(a, cells) == Cardinality({c \in cells : ~IsNan(a.px[c])})

\* buffer1 = img1[y0:y1, x0:x1] is a view: buffer1[np.isnan(buffer1)] = 0
\* writes into img1 itself
ZeroNansInView(a, y0, y1, x0, x1) ==
    LET ylo == SliceLo(y0, a.h)
        xlo == SliceLo(x0, a.w)
        hh  == SliceLen(y0, y1, a.h)
        ww  == SliceLen(x0, x1, a.w)
        In(c) == c[1] >= ylo /\ c[1] < ylo + hh /\ c[2] >= xlo /\ c[2] < xlo + ww
    IN  [a EXCEPT !.px = [c \in Cells(a.h, a.w) |->
                              IF In(c) /\ IsNan(a.px[c]) THEN 0 ELSE a.px[c]]]

\* newimg[y0:y1, x0:x1] = src: src must broadcast to the shape of the target
AssignFits(a, y0, y1, x0, x1, srcShape) ==
    LET hh == SliceLen(y0, y1, a.h)
        ww == SliceLen(x0, x1, a.w)
    IN  /\ srcShape # BadShape
        /\ (srcShape[1] = hh \/ srcShape[1] = 1)
        /\ (srcShape[2] = ww \/ srcShape[2] = 1)
AssignSlice(a, y0, y1, x0, x1, src) ==
    LET ylo == SliceLo(y0, a.h)
        xlo == SliceLo(x0, a.w)
        hh  == SliceLen(y0, y1, a.h)
        ww  == SliceLen(x0, x1, a.w)
        In(c) == c[1] >= ylo /\ c[1] < ylo + hh /\ c[2] >= xlo /\ c[2] < xlo + ww
        From(c) == <<IF src.h = 1 THEN 0 ELSE c[1] - ylo, IF src.w = 1 THEN 0 ELSE c[2] - xlo>>
    IN  [a EXCEPT !.px = [c \in Cells(a.h, a.w) |->
                              IF In(c) THEN src.px[From(c)] ELSE a.px[c]]]

\* the overlap geometry of img_merge_pyramid: which case, the widths, the
\* shape of mask2, or the exception raised while computing them
PyramidGeometry(a1, a2, rough_shift, margin) ==
    LET corner == _get_corner(rough_shift, Shape(a2))
        c00 == corner[1][1]
        c01 == corner[1][2]
        c10 == corner[2][1]
        c11 == corner[2][2]
        Geo(status, case, wv, wh, mh, mw) ==
            [status |-> status, case |-> case, wid_ver |-> wv, wid_hor |-> wh,
             mask_h |-> mh, mask_w |-> mw, c00 |-> c00, c01 |-> c01]
    IN  IF Abs(rough_shift[2]) > margin /\ Abs(rough_shift[1]) > margin
        THEN \* overlap at left and top
             LET temp0 == IF c10 <= a1.h - 1 THEN a2.h ELSE a1.h - c00
                 temp1 == IF c11 <= a1.w - 1 THEN a2.w ELSE a1.w - c01
                 temp  == SubImage(a1, c00, c00 + temp0, c01, c01 + temp1)
                 wv    == CountFinite(temp, {c \in Cells(temp.h, temp.w) : c[2] = temp.w - 1})
                 wh    == CountFinite(temp, {c \in Cells(temp.h, temp.w) : c[1] = temp.h - 1})
             IN  IF temp0 < 0 \/ temp1 < 0 THEN Geo("ValueError", "topleft", 0, 0, 0, 0)
                 ELSE IF temp.w = 0 \/ temp.h = 0 THEN Geo("IndexError", "topleft", 0, 0, 0, 0)
                 ELSE Geo("ok", "topleft", wv, wh, temp0, temp1)
        ELSE IF Abs(rough_shift[2]) < margin /\ Abs(rough_shift[1]) > margin
        THEN \* overlap at top only
             LET abs_height == CountFinite(a1, {c \in Cells(a1.h, a1.w) : c[2] = margin})
                 wv == abs_height - c00
                 wh == IF a1.w > a2.w THEN a2.w ELSE a2.w - c01
             IN  IF margin >= a1.w THEN Geo("IndexError", "top", 0, 0, 0, 0)
                 ELSE IF wv < 0 \/ wh < 0 THEN Geo("ValueError", "top", wv, wh, 0, 0)
                 ELSE Geo("ok", "top", wv, wh, wv, wh)
        ELSE \* overlap at left only
             LET abs_width == CountFinite(a1, {c \in Cells(a1.h, a1.w) : c[1] = margin})
                 wv == a2.h - c00
                 wh == abs_width - c01
             IN  IF margin >= a1.h THEN Geo("IndexError", "left", 0, 0, 0, 0)
                 ELSE IF wv < 0 \/ wh < 0 THEN Geo("ValueError", "left", wv, wh, 0, 0)
                 ELSE Geo("ok", "left", wv, wh, wv, wh)

\* mask2 as it enters the pyramid: built per case, split, NaN replaced by 1
PyramidMask(g, rough_shift, margin) ==
    LET Initial(c) ==
            IF g.case = "topleft"
            THEN IF c[1] < g.wid_ver \/ c[2] < g.wid_hor THEN 1 ELSE NaN
            ELSE 1
        Split(c) ==
            IF Abs(rough_shift[1]) > margin /\ c[1] < g.wid_ver \div 2 THEN 0
            ELSE IF Abs(rough_shift[2]) > margin /\ c[2] < g.wid_hor \div 2 THEN 0
            ELSE Initial(c)
    IN  Image(g.mask_h, g.mask_w,
              [c \in Cells(g.mask_h, g.mask_w) |-> IF IsNan(Split(c)) THEN 1 ELSE Split(c)])

\* the shapes of the blended Laplacian levels: _blend(lapl_pyr2, lapl_pyr1,
\* gauss_mask) on the pyramids of the buffers and of the mask
PyramidLevels(a1, a2, g, depth) ==
    LET s1 == Shape(SubImage(a1, g.c00, g.c00 + g.mask_h, g.c01, g.c01 + g.mask_w))
        s2 == Shape(SubImage(a2, 0, g.mask_h, 0, g.mask_w))
    IN  BlendShapes(LaplShapes(GaussShapes(s2, depth)), LaplShapes(GaussShapes(s1, depth)),
                    GaussShapes(<<g.mask_h, g.mask_w>>, depth))

\* the collapsed patch; a NaN of buffer2 spreads over a patch this small
CollapsedPatch(blended, buffer2) ==
    LET oshape == CollapseShape(blended)
        nan2   == \E c \in Cells(buffer2.h, buffer2.w) : IsNan(buffer2.px[c])
    IN  Image(oshape[1], oshape[2],
              [c \in Cells(oshape[1], oshape[2]) |->
                  IF CollapseIsZeros(blended) THEN 0
                  ELSE IF nan2 THEN NaN
                  ELSE BlendedVal(c[1], c[2])])

\* case 'topleft': whether the two strips of the patch fit the slices they
\* are assigned to
PasteFitsTL(newimg, g, ovlp) ==
    /\ AssignFits(newimg, g.c00, g.c00 + g.wid_ver, g.c01, g.c01 + g.mask_w,
                  Shape(SubImage(ovlp, 0, g.wid_ver, 0, ovlp.w)))
    /\ AssignFits(newimg, g.c00 + g.wid_ver, g.c00 + g.mask_h, g.c01, g.c01 + g.wid_hor,
                  Shape(SubImage(ovlp, g.wid_ver, ovlp.h, 0, g.wid_hor)))

\* the other cases: whether the patch fits the slice it is assigned to
PasteFits1(newimg, g, ovlp) ==
    AssignFits(newimg, g.c00, g.c00 + g.wid_ver, g.c01, g.c01 + g.wid_hor, Shape(ovlp))

PasteTL(newimg, g, ovlp) ==
    AssignSlice(
        AssignSlice(newimg, g.c00, g.c00 + g.wid_ver, g.c01, g.c01 + g.mask_w,
                    SubImage(ovlp, 0, g.wid_ver, 0, ovlp.w)),
        g.c00 + g.wid_ver, g.c00 + g.mask_h, g.c01, g.c01 + g.wid_hor,
        SubImage(ovlp, g.wid_ver, ovlp.h, 0, g.wid_hor))

Paste1(newimg, g, ovlp) ==
    AssignSlice(newimg, g.c00, g.c00 + g.wid_ver, g.c01, g.c01 + g.wid_hor, ovlp)

\* img_merge_pyramid from "gauss_mask = _gauss_pyramid(...)" on, with the
\* buffers cut out (after1 is img1 as the NaN replacement in buffer1 left it)
PyramidPaste(a1, a2, shift, depth, g, mask2, after1, blended) ==
    LET newimg  == arrange_image(a1, a2, shift, 1)
        buffer1 == SubImage(after1, g.c00, g.c00 + g.mask_h, g.c01, g.c01 + g.mask_w)
        buffer2 == SubImage(a2, 0, g.mask_h, 0, g.mask_w)
        empty   == \E b \in {Shape(mask2), Shape(buffer1), Shape(buffer2)} : b[1] = 0 \/ b[2] = 0
        oshape  == CollapseShape(blended)
        aux     == [kind |-> "pyramid", geo |-> g, mask2 |-> mask2, buffer1 |-> buffer1,
                    buffer2 |-> buffer2, gauss_mask |-> GaussShapes(Shape(mask2), depth),
                    gauss1 |-> GaussShapes(Shape(buffer1), depth),
                    gauss2 |-> GaussShapes(Shape(buffer2), depth), blended |-> blended]
    IN  IF empty \/ oshape = BadShape
        THEN Outcome("ValueError", <<"arrange_image", "_gauss_pyramid">>, NoImage, after1, aux)
        ELSE CHOOSE o \in
                 {IF (g.case = "topleft" /\ ~PasteFitsTL(newimg, g, ovlp))
                     \/ (g.case # "topleft" /\ ~PasteFits1(newimg, g, ovlp))
                  THEN Outcome("ValueError", <<"arrange_image", "_gauss_pyramid",
                                               "_lapl_pyramid", "_blend", "_collapse">>,
                               NoImage, after1, aux)
                  ELSE Outcome("ok", <<"arrange_image", "_gauss_pyramid", "_lapl_pyramid",
                                       "_blend", "_collapse">>,
                               IF g.case = "topleft" THEN PasteTL(newimg, g, ovlp)
                               ELSE Paste1(newimg, g, ovlp), after1, aux) :
                     ovlp \in {Materialise(CollapsedPatch(blended, buffer2))}} : TRUE

\* img_merge_pyramid from "mask2 = np.ones(...)" on, with the corners and
\* widths it worked out (g)
PyramidOnGeometry(a1, a2, shift, margin, depth, g) ==
    IF g.status # "ok"
    THEN Outcome(g.status, <<"arrange_image">>, NoImage, a1, NoAux)
    ELSE CHOOSE o \in
             {PyramidPaste(a1, a2, shift, depth, g, mask2, after1, blended) :
                 mask2 \in {Materialise(PyramidMask(g, get_roughshift(shift), margin))},
                 after1 \in {Materialise(ZeroNansInView(a1, g.c00, g.c00 + g.mask_h,
                                                        g.c01, g.c01 + g.mask_w))},
                 blended \in {PyramidLevels(a1, a2, g, depth)}} : TRUE

\* variant: no early return, the blend is built whatever the shift
img_merge_pyramid_always(a1, a2, shift, margin, blur, depth) ==
    CHOOSE o \in
        {PyramidOnGeometry(a1, a2, shift, margin, depth, g) :
            g \in {PyramidGeometry(a1, a2, get_roughshift(shift), margin)}} : TRUE

img_merge_pyramid(a1, a2, shift, margin, blur, depth) ==
    IF Abs(shift[1]) < margin /\ Abs(shift[2]) < margin
    THEN Outcome("ok", <<"arrange_image">>, arrange_image(a1, a2, shift, 1), a1, NoAux)
    ELSE CHOOSE o \in
             {PyramidOnGeometry(a1, a2, shift, margin, depth, g) :
                 g \in {PyramidGeometry(a1, a2, get_roughshift(shift), margin)}} : TRUE

(* ------------------------------------------------------------------ *)
(* BlendDispatcher: blend, _get_func, _get_algorithm_kwargs            *)
(* ------------------------------------------------------------------ *)
MethodNames == {"alpha", "max", "min", "poisson", "pyramid"}

\* variant: 'pyramid' also lets alpha through
allowed_kwargs_lenient(name) ==
    CASE name = "alpha"   -> {"alpha"}
      [] name = "pyramid" -> {"blur", "margin", "depth", "alpha"}
      [] OTHER            -> {}

\* allowed_kwargs of blend
allowed_kwargs(name) ==
    CASE name = "alpha"   -> {"alpha"}
      [] name = "pyramid" -> {"blur", "margin", "depth"}
      [] OTHER            -> {}

\* variant: the dispatcher fills in the strategies' own defaults
AlgorithmKwargsOwn ==
    [alpha |-> Rat(2, 5), blur |-> Rat(2, 5), margin |-> RInt(100), depth |-> RInt(4)]

\* the defaults blend fills in
_get_algorithm_kwargs ==
    [alpha |-> RInt(1), blur |-> Rat(2, 5), margin |-> RInt(50), depth |-> RInt(4)]

\* what blend stores for a keyword the caller supplied: np.array(value), and
\* for alpha np.array(value, dtype='float32')
ConvertKwarg(key, value) == IF key = "alpha" THEN AsFloat32(value) ELSE value

\* parameters of a strategy after img1, img2, shift, with their own defaults
StrategyParams(name) ==
    CASE name = "alpha"   -> {"alpha"}
      [] name = "pyramid" -> {"margin", "blur", "depth"}
      [] OTHER            -> {}
OwnDefault(key) ==
    CASE key = "alpha"  -> AlphaOwnDefault
      [] key = "margin" -> RInt(PyramidOwnMargin)
      [] key = "blur"   -> PyramidOwnBlur
      [] key = "depth"  -> RInt(PyramidOwnDepth)

\* func(img1, img2, shift, **kwargs): Python binds the keywords to the
\* parameters, then the strategy runs
CallStrategy(name, a1, a2, shift, kwargs) ==
    LET bound == [k \in StrategyParams(name) |->
                     IF k \in DOMAIN kwargs THEN kwargs[k] ELSE OwnDefault(k)]
        o == CASE name = "alpha"   -> img_merge_alpha(a1, a2, shift, bound["alpha"])
               [] name = "max"     -> img_merge_max(a1, a2, shift)
               [] name = "min"     -> img_merge_min(a1, a2, shift)
               [] name = "poisson" -> img_merge_poisson(a1, a2, shift)
               [] name = "pyramid" -> img_merge_pyramid(a1, a2, shift, bound["margin"].n,
                                                        bound["blur"], bound["depth"].n)
    IN  IF ~(DOMAIN kwargs \subseteq StrategyParams(name))
        THEN [status |-> "TypeError", calls |-> <<>>, out |-> NoImage, i1 |-> a1,
              aux |-> NoAux, recv |-> <<>>]
        ELSE CHOOSE r \in
                 {[status |-> res.status, calls |-> res.calls, out |-> res.out,
                   i1 |-> res.i1, aux |-> res.aux, recv |-> bound] :
                     res \in {Materialise(o)}} : TRUE

\* _get_func: the strategy of a name; for anything else no branch binds func
\* and "return func" raises
_get_func(method) ==
    IF method.kind = "str" /\ method.name \in MethodNames THEN method.name
    ELSE "UnboundLocalError"

Rejected(status, a1) ==
    [status |-> status, calls |-> <<>>, out |-> NoImage, i1 |-> a1, aux |-> NoAux,
     recv |-> <<>>]

blend(a1, a2, shift, method, kwargs) ==
    LET kwargs_defaults == _get_algorithm_kwargs
        filled == [k \in (DOMAIN kwargs) \cup allowed_kwargs(method.name) |->
                      IF k \in DOMAIN kwargs THEN ConvertKwarg(k, kwargs[k])
                      ELSE kwargs_defaults[k]]
        \* a callable: generic_kwargs is empty and kwargs go on unchanged
        passed == IF method.kind = "str" THEN filled ELSE kwargs
        func   == _get_func(method)
    IN  IF method.kind = "str" /\ method.name \notin MethodNames
        THEN Rejected("ValueError", a1)
        ELSE IF method.kind = "str"
                /\ \E k \in DOMAIN kwargs : k \notin allowed_kwargs(method.name)
        THEN Rejected("ValueError", a1)
        ELSE IF method.kind \notin {"str", "callable"}
        THEN Rejected("ValueError", a1)
        ELSE IF func = "UnboundLocalError"
        THEN Rejected("UnboundLocalError", a1)
        ELSE CallStrategy(func, a1, a2, shift, passed)

(* ------------------------------------------------------------------ *)
(* RegistrationEngine: register_translation                            *)
(* ------------------------------------------------------------------ *)
\* shift_bit_length(x) = 1 << (x - 1).bit_length()
shift_bit_length(x) == Pow2(BitLength(x - 1))

RECURSIVE SeqMax(_)
SeqMax(q) == IF Len(q) = 1 THEN q[1] ELSE Max2(q[1], SeqMax(Tail(q)))

\* every index of an array of the given shape (2-D or 3-D)
Indices(shape) ==
    IF Len(shape) = 2 THEN (0 .. shape[1] - 1) \X (0 .. shape[2] - 1)
    ELSE (0 .. shape[1] - 1) \X (0 .. shape[2] - 1) \X (0 .. shape[3] - 1)
Origin(shape) == [i \in 1 .. Len(shape) |-> 0]

\* variant: only the dimensionality is compared
ShapesDifferNdim(s, t) == Len(s) # Len(t)
\* src_image.shape != target_image.shape
ShapesDiffer(s, t) == s # t

\* space.lower()
Lower(space) ==
    CASE space = "Real" -> "real"
      [] space = "FOURIER" -> "fourier"
      [] OTHER -> space

\* a range argument: <<>> stands for [None, None]
RangeOrDefault(r, new_size) == IF r = <<>> THEN <<0, new_size>> ELSE r

\* variant: the upper bound of the window is left out
SearchMaskExclusive(shape, rangeY, rangeX) ==
    {i \in Indices(shape) : /\ (i[1] - rangeY[1]) % shape[1] < SliceNorm(rangeY[2] - rangeY[1], shape[1])
                            /\ (i[2] - rangeX[1]) % shape[2] < SliceNorm(rangeX[2] - rangeX[1], shape[2])}

\* the indices where mask is 1: mask[:ry1 - ry0 + 1, :rx1 - rx0 + 1] = 1, then
\* np.roll by ry0 along axis 0 and by rx0 along axis 1
SearchMask(shape, rangeY, rangeX) ==
    LET ny == SliceNorm(rangeY[2] - rangeY[1] + 1, shape[1])
        nx == SliceNorm(rangeX[2] - rangeX[1] + 1, shape[2])
    IN  {i \in Indices(shape) : /\ (i[1] - rangeY[1]) % shape[1] < ny
                                /\ (i[2] - rangeX[1]) % shape[2] < nx}

\* where np.argmax can land: on the largest value of the masked surface, or
\* on the first element when the surface holds no positive value at all
PeakChoices(shape, mask) == mask \cup {Origin(shape)}

\* variant: the midpoint itself is wrapped as well
WrapFromMidpoint(p, n) == IF p >= n \div 2 THEN p - n ELSE p

\* shifts[shifts > midpoints] -= shape[shifts > midpoints]
WrapPastMidpoint(p, n) == IF p > n \div 2 THEN p - n ELSE p

\* variant: the two axes take each other's place
ForwardAxisSwapped(down) == IF down = 0 THEN 1 ELSE 2
\* the axis made non-negative: axis 1 unless down is set, then axis 0
\* (as positions 2 and 1 of the shift vector)
ForwardAxis(down) == IF down = 0 THEN 2 ELSE 1

\* what the function hands back
ReturnedParts == <<"shifts">>

RegRet(status, stages, parts, raw, shifts, scale, mask) ==
    [status |-> status, stages |-> stages, parts |-> parts, raw |-> raw,
     shifts |-> shifts, scale |-> scale, mask |-> mask]
RegFail(status, stages) == RegRet(status, stages, <<>>, <<>>, <<>>, 1, {})

\* register_translation; maxima is where the first argmax lands, up_maxima
\* where the argmax over the upsampled region lands.  Shifts are held as
\* whole numbers of 1/upsample_factor pixel (scale).
register_translation(src_shape, target_shape, rangeX, rangeY, down, upsample_factor, space, maxima, up_maxima) ==
    LET shape    == src_shape
        n        == Len(shape)
        new_size == shift_bit_length(Max2(SeqMax(target_shape), SeqMax(src_shape)))
        rX       == RangeOrDefault(rangeX, new_size)
        rY       == RangeOrDefault(rangeY, new_size)
        mask     == SearchMask(shape, rY, rX)
        first    == [i \in 1 .. n |-> WrapPastMidpoint(maxima[i], shape[i])]
        region   == 2 * upsample_factor
        dftshift == region \div 2
        refined  == [i \in 1 .. n |->
                        IF upsample_factor = 1 THEN first[i]
                        ELSE first[i] * upsample_factor + (up_maxima[i] - dftshift)]
        raw      == [i \in 1 .. n |-> IF shape[i] = 1 THEN 0 ELSE refined[i]]
        fwd      == ForwardAxis(down)
        shifts   == [i \in 1 .. n |->
                        IF i = fwd /\ raw[i] < 0 THEN raw[i] + shape[i] * upsample_factor
                        ELSE raw[i]]
        spectra  == IF Lower(space) = "real" THEN <<"max", "fftn", "fftn">> ELSE <<"max">>
        whole    == spectra \o <<"ifftn", "gaussian_filter", "argmax">>
        stages   == IF upsample_factor = 1 THEN whole
                    ELSE whole \o <<"_upsampled_dft", "argmax", "_upsampled_dft",
                                    "_upsampled_dft">>
    IN  IF ShapesDiffer(src_shape, target_shape) THEN RegFail("ValueError", <<>>)
        ELSE IF n # 2 /\ upsample_factor > 1 THEN RegFail("NotImplementedError", <<>>)
        ELSE IF Lower(space) \notin {"real", "fourier"} THEN RegFail("ValueError", <<"max">>)
        ELSE RegRet("ok", stages, ReturnedParts, raw, shifts, upsample_factor, mask)

\* whether the call gets as far as locating a maximum
ReachesArgmax(src_shape, target_shape, upsample_factor, space) ==
    register_translation(src_shape, target_shape, <<>>, <<>>, 0, upsample_factor, space,
                         Origin(src_shape), <<0, 0>>).status = "ok"

(* ------------------------------------------------------------------ *)
(* RegistrationEngine: an image registered against itself, in exact    *)
(* arithmetic.  The sides are 1, 2 or 4 (times the upsample factor at  *)
(* most 4), so that every root of unity is one of 1, -i, -1, i.        *)
(* ------------------------------------------------------------------ *)
\* complex numbers with whole parts: <<re, im>>
CAdd(a, b) == <<a[1] + b[1], a[2] + b[2]>>
CMul(a, b) == <<a[1] * b[1] - a[2] * b[2], a[1] * b[2] + a[2] * b[1]>>
CAbs2(a) == a[1] * a[1] + a[2] * a[2]

\* exp(-2 pi i e / m) for m one of 1, 2, 4
UnitRoot(m, e) ==
    LET q == (e * (4 \div m)) % 4
    IN  CASE q = 0 -> <<1, 0>>
          [] q = 1 -> <<0, -1>>
          [] q = 2 -> <<-1, 0>>
          [] OTHER -> <<0, 1>>

RECURSIVE CSum(_, _)
CSum(f, S) ==
    IF S = {} THEN <<0, 0>>
    ELSE LET k == CHOOSE k \in S : TRUE IN CAdd(f[k], CSum(f, S \ {k}))

\* np.fft.fftn(src_image); the division by norm_max scales the spectrum and
\* moves none of its zeros
fftn(a) ==
    [k \in Cells(a.h, a.w) |->
        CSum([c \in Cells(a.h, a.w) |->
                 CMul(<<a.px[c], 0>>,
                      CMul(UnitRoot(a.h, k[1] * c[1]), UnitRoot(a.w, k[2] * c[2])))],
             Cells(a.h, a.w))]

\* image_product for target = src: src_freq * src_freq.conj() over
\* abs(src_freq) * abs(src_freq) is 1 where the spectrum is not zero, and
\* 0 / 0 = nan where it is
SpectrumHasZero(a) == \E k \in Cells(a.h, a.w) : fftn(a)[k] = <<0, 0>>

\* np.fft.ifftn of a spectrum
ifftn(f, h, w) ==
    [c \in Cells(h, w) |->
        LET t == CSum([k \in Cells(h, w) |->
                          CMul(f[k], CMul(UnitRoot(h, -(k[1] * c[1])),
                                          UnitRoot(w, -(k[2] * c[2]))))],
                      Cells(h, w))
        IN  <<t[1] \div (h * w), t[2] \div (h * w)>>]

\* abs of a complex number whose modulus is whole
CAbs(z) == CHOOSE r \in 0 .. CAbs2(z) : r * r <= CAbs2(z) /\ (r + 1) * (r + 1) > CAbs2(z)

\* the kernel of gaussian_filter for sigma = 3 (the default blur), truncated at
\* 4 sigma: 1000 * exp(-d * d / 18) for d = 0 .. 12
GaussWeights == <<1000, 946, 801, 607, 411, 249, 135, 66, 29, 11, 4, 1, 0>>

\* correlate1d at index x of a line of n values, mode='reflect': the terms
\* from offset d on
RECURSIVE Correlate1d(_, _, _, _)
Correlate1d(line, n, x, d) ==
    IF d > Len(GaussWeights) - 1 THEN 0
    ELSE GaussWeights[Abs(d) + 1] * line[Reflect(x + d, n)] + Correlate1d(line, n, x, d + 1)

\* one pass of the filter along an axis (1: rows, 2: columns)
GaussPass(f, h, w, axis) ==
    [c \in Cells(h, w) |->
        IF axis = 1
        THEN Correlate1d([y \in 0 .. h - 1 |-> f[<<y, c[2]>>]], h, c[1], 1 - Len(GaussWeights))
        ELSE Correlate1d([x \in 0 .. w - 1 |-> f[<<c[1], x>>]], w, c[2], 1 - Len(GaussWeights))]

\* scipy.ndimage.gaussian_filter(input, sigma=3): one pass per axis
gaussian_filter(f, h, w) ==
    CHOOSE o \in {Materialise(GaussPass(rows, h, w, 2)) :
                     rows \in {Materialise(GaussPass(f, h, w, 1))}} : TRUE

\* np.argmax over the flattened array: the first of the largest values
ArgmaxFirst(f, h, w) ==
    CHOOSE i \in Cells(h, w) :
        \A j \in Cells(h, w) :
            f[j] < f[i] \/ (f[j] = f[i] /\ i[1] * w + i[2] <= j[1] * w + j[2])

\* where the first argmax lands when src and target are one image: the
\* surface is gaussian_filter(abs(ifftn(image_product))) times the mask; a nan
\* in image_product makes every value nan and argmax returns index 0
SelfMaxima(a, mask) ==
    IF SpectrumHasZero(a) THEN <<0, 0>>
    ELSE CHOOSE m \in
             {ArgmaxFirst([i \in Cells(a.h, a.w) |-> IF i \in mask THEN surface[i] ELSE 0],
                          a.h, a.w) :
                 surface \in {gaussian_filter(
                                 Materialise([c \in Cells(a.h, a.w) |->
                                     CAbs(ifftn([k \in Cells(a.h, a.w) |-> <<1, 0>>],
                                                a.h, a.w)[c])]),
                                 a.h, a.w)}} : TRUE

\* np.fft.ifftshift(np.arange(n)) - np.floor(n / 2), at position c
CentredFreq(n, c) == ((c + n \div 2) % n) - n \div 2

\* _upsampled_dft(data, region, upsample_factor, axis_offsets):
\* row_kernel.dot(data).dot(col_kernel)
_upsampled_dft(data, h, w, region, upsample_factor, axis_offsets) ==
    [o \in Cells(region, region) |->
        CSum([rc \in Cells(h, w) |->
                 CMul(data[rc],
                      CMul(UnitRoot(h * upsample_factor,
                                    (o[1] - axis_offsets[1]) * CentredFreq(h, rc[1])),
                           UnitRoot(w * upsample_factor,
                                    CentredFreq(w, rc[2]) * (o[2] - axis_offsets[2]))))],
             Cells(h, w))]

\* where the argmax over the upsampled region lands when src and target are
\* one image and the first estimate is `first`
SelfUpMaxima(a, first, upsample_factor) ==
    LET region   == 2 * upsample_factor
        dftshift == region \div 2
        sample_region_offset == <<dftshift - first[1] * upsample_factor,
                                  dftshift - first[2] * upsample_factor>>
    IN  IF upsample_factor = 1 \/ SpectrumHasZero(a) THEN <<0, 0>>
        ELSE CHOOSE m \in
                 {ArgmaxFirst([o \in Cells(region, region) |-> CAbs2(cross[o])],
                              region, region) :
                     cross \in {Materialise(_upsampled_dft(
                                   [k \in Cells(a.h, a.w) |-> <<1, 0>>], a.h, a.w,
                                   region, upsample_factor, sample_region_offset))}} : TRUE

(* ------------------------------------------------------------------ *)
(* Inputs of the blending calls                                        *)
(* ------------------------------------------------------------------ *)
\* long enough for an overlap at a shift that activates PoissonBlend
LongDim == PoissonMinShift + 2

Img1Shapes == {<<MaxDim, MaxDim>>, <<MaxDim - 1, MaxDim>>, <<MaxDim, LongDim>>}
Img2Shapes == {<<MaxDim, MaxDim>>, <<MaxDim - 1, MaxDim - 1>>, <<MaxDim - 1, MaxDim>>}

\* where an array holds no data: nowhere, its last cell, a cell of row 1, or
\* its last column
NanPatterns1(h, w) ==
    {{}, {<<h - 1, w - 1>>}, {<<1, w - 2>>}, {c \in Cells(h, w) : c[2] = w - 1}}
NanPatterns2(h, w) == {{}, {<<0, 0>>}}

Images1 == UNION {{MakeImg1(s[1], s[2], n) : n \in NanPatterns1(s[1], s[2])} : s \in Img1Shapes}
Images2 == UNION {{MakeImg2(s[1], s[2], n) : n \in NanPatterns2(s[1], s[2])} : s \in Img2Shapes}
CleanImages1 == {MakeImg1(s[1], s[2], {}) : s \in Img1Shapes}
CleanImages2 == {MakeImg2(s[1], s[2], {}) : s \in Img2Shapes}

SmallShifts == (0 .. MaxShift) \X (0 .. MaxShift)
LongShifts == (0 .. 1) \X {PoissonMinShift, LongDim}
Shifts == SmallShifts \cup LongShifts
FewShifts == {<<0, 0>>, <<0, MaxShift>>, <<MaxShift, MaxShift>>, <<0, PoissonMinShift>>}

\* a value a little above 1/2 that float64 holds and float32 does not
HalfPlus == Rat(Pow2(25) + 1, Pow2(26))
AlphaValues == {RInt(0), Rat(1, 2), RInt(1), HalfPlus}
Margins == {RInt(m) : m \in 1 .. MaxMargin}
Depths == {RInt(d) : d \in 0 .. MaxDepth}

\* keyword arguments as a function from the keywords given to their values
NoKwargs == <<>>
OneKwarg(k, v) == k :> v
PyramidKwargs == {("margin" :> m) @@ ("depth" :> d) : m \in Margins, d \in Depths}

\* **kwargs a caller hands to blend
BlendKwargs ==
    {NoKwargs}
      \cup {OneKwarg("alpha", v) : v \in AlphaValues}
      \cup {OneKwarg("margin", m) : m \in Margins}
      \cup {OneKwarg("depth", d) : d \in Depths}
      \cup {OneKwarg("blur", Rat(1, 2)), OneKwarg("bogus", RInt(1)),
            ("alpha" :> RInt(1)) @@ ("bogus" :> RInt(1)),
            ("blur" :> Rat(1, 2)) @@ ("margin" :> RInt(1)) @@ ("depth" :> RInt(1))}

\* the method argument: a name, a callable, or something that is neither
Methods ==
    {[kind |-> "str", name |-> n] : n \in MethodNames \cup {"poison", "average"}}
      \cup {[kind |-> "callable", name |-> ""], [kind |-> "other", name |-> ""]}

\* direct calls of a strategy: its name and the keywords given
StrategyCalls ==
    {<<n, NoKwargs>> : n \in MethodNames}
      \cup {<<"alpha", OneKwarg("alpha", v)>> : v \in {RInt(0), Rat(1, 2), RInt(1)}}
      \cup {<<"pyramid", k>> : k \in PyramidKwargs}

(* ------------------------------------------------------------------ *)
(* The calls                                                           *)
(* ------------------------------------------------------------------ *)
\* nth: 1 for a first call, 2 for its repetition; first: what the first call
\* returned
BlendArgs(a1, a2, shift, method, kwargs) ==
    [img1 |-> a1, img2 |-> a2, shift |-> shift, method |-> method, kwargs |-> kwargs,
     nth |-> 1, first |-> NoImage, firstStatus |-> "none"]

Init ==
    /\ img1 = NoImage
    /\ img2 = NoImage
    /\ op = "init"
    /\ args = <<>>
    /\ ret = <<>>

\* blend(img1, img2, shift, method, **kwargs)
Blend ==
    /\ op = "init"
    /\ \E a1 \in CleanImages1, a2 \in CleanImages2, shift \in FewShifts,
       method \in Methods, kwargs \in BlendKwargs :
        \E r \in {blend(a1, a2, shift, method, kwargs)} :
            /\ op' = "blend"
            /\ args' = BlendArgs(a1, a2, shift, method, kwargs)
            /\ ret' = r
            /\ img1' = r.i1
            /\ img2' = a2

\* a strategy called directly: img_merge_xxx(img1, img2, shift, **kwargs)
Strategy ==
    /\ op = "init"
    /\ \E a1 \in Images1, a2 \in Images2, shift \in Shifts, call \in StrategyCalls :
        \E r \in {CallStrategy(call[1], a1, a2, shift, call[2])} :
            /\ op' = "strategy"
            /\ args' = BlendArgs(a1, a2, shift, [kind |-> "str", name |-> call[1]], call[2])
            /\ ret' = r
            /\ img1' = r.i1
            /\ img2' = a2

\* the same strategy call once more, on the arrays as the first call left them
CallAgain ==
    /\ op = "strategy"
    /\ args.nth = 1
    /\ \E r \in {CallStrategy(args.method.name, img1, img2, args.shift, args.kwargs)} :
           /\ op' = "strategy"
           /\ args' = [args EXCEPT !.nth = 2, !.first = ret.out, !.firstStatus = ret.status]
           /\ ret' = r
           /\ img1' = r.i1
           /\ img2' = img2

\* inputs of register_translation
RegShapes == {<<1, MaxDim>>, <<MaxDim - 1, MaxDim>>, <<MaxDim, MaxDim>>, <<2, 2, 2>>}
Windows == {<<>>, <<-1, 1>>, <<1, 2>>}
Factors == {1, 2}
Spaces == {"real", "fourier", "Real", "polar"}

\* register_translation(src_image, target_image, rangeX, rangeY, down,
\*                      upsample_factor, space)
Register ==
    /\ op = "init"
    /\ \E s \in RegShapes, t \in RegShapes, rX \in Windows, rY \in Windows,
          down \in {0, 1}, uf \in Factors, space \in Spaces :
        /\ IF space = "real" THEN TRUE ELSE rX = <<>> /\ rY = <<>>
        /\ LET reaches == ReachesArgmax(s, t, uf, space)
               new_size == shift_bit_length(Max2(SeqMax(t), SeqMax(s)))
               mask == SearchMask(s, RangeOrDefault(rY, new_size), RangeOrDefault(rX, new_size))
           IN  \E maxima \in (IF reaches THEN PeakChoices(s, mask) ELSE {Origin(s)}),
                  up \in (IF reaches /\ uf > 1 THEN (0 .. 2 * uf - 1) \X (0 .. 2 * uf - 1)
                          ELSE {<<0, 0>>}) :
                   /\ op' = "register"
                   /\ args' = [src_shape |-> s, target_shape |-> t, rangeX |-> rX,
                               rangeY |-> rY, down |-> down, upsample_factor |-> uf,
                               space |-> space, maxima |-> maxima, up_maxima |-> up,
                               same |-> FALSE, image |-> NoImage]
                   /\ ret' = register_translation(s, t, rX, rY, down, uf, space, maxima, up)
                   /\ UNCHANGED <<img1, img2>>

\* images registered against themselves: flat, a single bright pixel, a ramp
RampImage(h, w) == [h |-> h, w |-> w, den |-> 1, px |-> [c \in Cells(h, w) |-> 1 + c[1] * w + c[2]]]
SelfShapes == {<<1, 2>>, <<2, 2>>, <<1, 4>>, <<2, 4>>, <<4, 4>>}
SelfImages ==
    UNION {{[h |-> s[1], w |-> s[2], den |-> 1, px |-> [c \in Cells(s[1], s[2]) |-> 2]],
            RampImage(s[1], s[2])}
             \cup {[h |-> s[1], w |-> s[2], den |-> 1,
                    px |-> [c \in Cells(s[1], s[2]) |-> IF c = at THEN 3 ELSE 1]] :
                       at \in Cells(s[1], s[2])} : s \in SelfShapes}

\* register_translation(image, image, rangeX, rangeY, down, upsample_factor):
\* the peaks are the ones the surface of the image against itself has
RegisterSelf ==
    /\ op = "init"
    /\ \E image \in SelfImages, rX \in Windows, rY \in Windows, down \in {0, 1},
          uf \in Factors :
        /\ image.h * uf <= 4
        /\ image.w * uf <= 4
        /\ \E maxima \in {SelfMaxima(image,
                                SearchMask(Shape(image),
                                    RangeOrDefault(rY, shift_bit_length(Max2(image.h, image.w))),
                                    RangeOrDefault(rX, shift_bit_length(Max2(image.h, image.w)))))} :
             \E up \in {SelfUpMaxima(image,
                                     <<WrapPastMidpoint(maxima[1], image.h),
                                       WrapPastMidpoint(maxima[2], image.w)>>, uf)} :
                /\ op' = "register"
                /\ args' = [src_shape |-> Shape(image), target_shape |-> Shape(image),
                            rangeX |-> rX, rangeY |-> rY, down |-> down,
                            upsample_factor |-> uf, space |-> "real", maxima |-> maxima,
                            up_maxima |-> up, same |-> TRUE, image |-> image]
                /\ ret' = register_translation(Shape(image), Shape(image), rX, rY, down, uf,
                                               "real", maxima, up)
                /\ UNCHANGED <<img1, img2>>

\* images for the pyramid arithmetic: constant ones and single bright pixels
FlatImage(h, w, v) == [h |-> h, w |-> w, den |-> 1, px |-> [c \in Cells(h, w) |-> v]]
SpotImage(h, w, at) ==
    [h |-> h, w |-> w, den |-> 1, px |-> [c \in Cells(h, w) |-> IF c = at THEN 3 ELSE 1]]
PyramidImages ==
    UNION {{FlatImage(s[1], s[2], 2)} \cup {SpotImage(s[1], s[2], at) : at \in Cells(s[1], s[2])} :
           s \in {<<2, 2>>, <<4, 4>>, <<4, 2>>, <<3, 3>>}}
PyramidDepths == 0 .. MaxDepth
PyramidBlurs == {Rat(2, 5), Rat(1, 2)}

\* _collapse(_lapl_pyramid(_gauss_pyramid(image, depth, blur), blur), blur)
RoundTrip(image, depth, blur) ==
    LET gauss == _gauss_pyramid(image, depth, blur)
        lapl  == _lapl_pyramid(gauss, blur)
    IN  [status |-> "ok", out |-> _collapse(lapl, blur),
         gauss |-> [i \in 1 .. Len(gauss) |-> Shape(gauss[i])],
         lapl |-> [i \in 1 .. Len(lapl) |-> Shape(lapl[i])]]

PyramidRoundTrip ==
    /\ op = "init"
    /\ \E image \in PyramidImages, depth \in PyramidDepths, blur \in PyramidBlurs :
        /\ IF depth = 0 THEN TRUE
           ELSE image.h > Pow2(depth - 1) /\ image.w > Pow2(depth - 1)
        /\ op' = "roundtrip"
        /\ args' = [image |-> image, depth |-> depth, blur |-> blur]
        /\ \E r \in {RoundTrip(image, depth, blur)} : ret' = r
        /\ UNCHANGED <<img1, img2>>

Next == Blend \/ Strategy \/ CallAgain \/ Register \/ RegisterSelf \/ PyramidRoundTrip

Spec == Init /\ [][Next]_vars

(* ------------------------------------------------------------------ *)
(* Properties                                                          *)
(* ------------------------------------------------------------------ *)

\* C1: a successful register_translation yields three components: the shift
\* vector, the RMS error and the global phase difference, for
\* upsample_factor = 1 and for upsample_factor > 1 alike.
C1_ThreeComponents ==
    (op = "register" /\ ret.status = "ok")
        => ret.parts = <<"shifts", "error", "phasediff">>

\* C2: blend called with a callable as method does not fail in dispatch: the
\* callable is what gets applied to (img1, img2, shift, options).
C2_CallableAccepted ==
    (op = "blend" /\ args.method.kind = "callable")
        => (ret.status # "UnboundLocalError" /\ ret.calls # <<>>)

C4_ShapeMismatchFailsFirst ==
    (op = "register" /\ args.src_shape # args.target_shape)
        => (ret.status = "ValueError" /\ ret.stages = <<>> /\ ret.parts = <<>>)

\* C4 happens: two 2-D shapes that differ, with a window, subpixel refinement
\* and the down flag set.
C4_Witness ==
    /\ op = "register"
    /\ Len(args.src_shape) = Len(args.target_shape)
    /\ args.src_shape # args.target_shape
    /\ args.rangeX # <<>>
    /\ args.upsample_factor > 1
    /\ args.down = 1
    /\ ret.status = "ValueError"

\* C5: no strategy modifies img1 or img2, so calling the same strategy again
\* with the same arrays, shift and options returns the same output.
C5_InputsUntouched ==
    op = "strategy"
        => /\ img1 = args.img1
           /\ img2 = args.img2
           /\ args.nth = 2 => (ret.out = args.first /\ ret.status = args.firstStatus)

\* C6 (as the code has it): in the system PoissonBlend builds, the diagonal
\* entry of every unknown is 4, the number of its 4-neighbours whether they
\* are unknowns or not; A[i][j] off the diagonal is -1 exactly when unknowns
\* i and j are 4-adjacent and 0 otherwise; A is symmetric.
C6_MatrixLaplacian ==
    (op \in {"strategy", "blend"} /\ ret.status = "ok" /\ ret.aux.kind = "poisson")
        => LET U == ret.aux.unknown
               w == args.img2.w
               Idx(c) == Cardinality({d \in U : d[1] * w + d[2] < c[1] * w + c[2]})
               Adjacent(c, d) == Abs(c[1] - d[1]) + Abs(c[2] - d[2]) = 1
               A == ret.aux.A
           IN  /\ DOMAIN A = (0 .. Cardinality(U) - 1) \X (0 .. Cardinality(U) - 1)
               /\ \A c \in U : A[<<Idx(c), Idx(c)>>] = 4
               /\ \A c, d \in U :
                     c # d => A[<<Idx(c), Idx(d)>>] = (IF Adjacent(c, d) THEN -1 ELSE 0)
               /\ \A e \in DOMAIN A : A[e] = A[<<e[2], e[1]>>]

\* C6 as stated: the diagonal entry of every unknown is the number of its
\* 4-neighbours that are unknowns themselves, a value from 2 to 4.
C6_DiagonalCountsUnknowns ==
    (op \in {"strategy", "blend"} /\ ret.status = "ok" /\ ret.aux.kind = "poisson")
        => LET U == ret.aux.unknown
               w == args.img2.w
               Idx(c) == Cardinality({d \in U : d[1] * w + d[2] < c[1] * w + c[2]})
               Nb(c) == Cardinality({d \in U : Abs(c[1] - d[1]) + Abs(c[2] - d[2]) = 1})
           IN  \A c \in U : /\ ret.aux.A[<<Idx(c), Idx(c)>>] = Nb(c)
                            /\ Nb(c) \in 2 .. 4

\* C6 happens: a system over several unknowns, some adjacent and some not.
C6_Witness ==
    /\ op = "strategy"
    /\ ret.status = "ok"
    /\ ret.aux.kind = "poisson"
    /\ Cardinality(ret.aux.unknown) >= 4
    /\ \E e \in DOMAIN ret.aux.A : ret.aux.A[e] = -1
    /\ \E e \in DOMAIN ret.aux.A : ret.aux.A[e] = 0

\* C7: for every depth and every image whose sides are multiples of 2^depth,
\* collapsing the Laplacian pyramid of the image's Gaussian pyramid gives the
\* image back.
C7_RoundTrip ==
    (/\ op = "roundtrip"
     /\ args.image.h % Pow2(args.depth) = 0
     /\ args.image.w % Pow2(args.depth) = 0)
        => ret.out = args.image

\* C8: when the Poisson blend is active, every pixel on the edge of img2's
\* rectangle whose neighbour across that edge holds data on the arranged
\* canvas comes out with img1's value at that pixel.
C8_KnownBoundaryKeepsImg1 ==
    (/\ op \in {"strategy", "blend"}
     /\ args.method = [kind |-> "str", name |-> "poisson"]
     /\ ret.status = "ok"
     /\ (Abs(args.shift[1]) >= 10 \/ Abs(args.shift[2]) >= 10))
        => LET a2 == args.img2
               y0 == args.shift[1]
               x0 == args.shift[2]
               canvas == arrange_image(args.img1, a2, args.shift, 1)
               Data(y, x) == /\ y >= 0 /\ y < canvas.h /\ x >= 0 /\ x < canvas.w
                             /\ canvas.px[<<y, x>>] # NaN
               \* the cells next to c across the edges of the rectangle c lies on
               Outside(c) ==
                   (IF c[1] = 0 THEN {<<y0 - 1, x0 + c[2]>>} ELSE {})
                     \cup (IF c[1] = a2.h - 1 THEN {<<y0 + a2.h, x0 + c[2]>>} ELSE {})
                     \cup (IF c[2] = 0 THEN {<<y0 + c[1], x0 - 1>>} ELSE {})
                     \cup (IF c[2] = a2.w - 1 THEN {<<y0 + c[1], x0 + a2.w>>} ELSE {})
           IN  \A c \in Cells(a2.h, a2.w) :
                   (\E o \in Outside(c) : Data(o[1], o[2]))
                       => /\ <<y0 + c[1], x0 + c[2]>> \in DOMAIN args.img1.px
                          /\ ret.out.px[<<y0 + c[1], x0 + c[2]>>]
                                 = args.img1.px[<<y0 + c[1], x0 + c[2]>>]

\* C8 happens: an active Poisson blend with boundary pixels next to img1's
\* data and with unknowns solved for.
C8_Witness ==
    /\ op = "strategy"
    /\ args.method.name = "poisson"
    /\ ret.status = "ok"
    /\ ret.aux.kind = "poisson"
    /\ Cardinality(ret.aux.known) >= 2
    /\ ret.aux.unknown # {}
    /\ \E c \in ret.aux.known :
           ret.out.px[<<args.shift[1] + c[1], args.shift[2] + c[2]>>]
               = Img1Val(args.shift[1] + c[1], args.shift[2] + c[2])

\* C9: the returned shift is non-negative on the forward axis (axis 1 unless
\* down is set, then axis 0); a negative estimate there has the axis length
\* added once and lands in [0, axis length); every other component is
\* returned as estimated.  (Shifts are counted in 1/scale pixel.)
C9_ForwardAxisNonNegative ==
    (op = "register" /\ ret.status = "ok")
        => LET fwd == IF args.down = 0 THEN 2 ELSE 1
               len == args.src_shape[fwd] * ret.scale
           IN  /\ ret.shifts[fwd] >= 0
               /\ ret.raw[fwd] < 0 => /\ ret.shifts[fwd] = ret.raw[fwd] + len
                                      /\ ret.shifts[fwd] < len
               /\ ret.raw[fwd] >= 0 => ret.shifts[fwd] = ret.raw[fwd]
               /\ \A i \in DOMAIN ret.shifts : i # fwd => ret.shifts[i] = ret.raw[i]

\* C9 happens: both estimates negative, the forward one is wrapped and the
\* other one stays negative.
C9_Witness ==
    /\ op = "register"
    /\ ret.status = "ok"
    /\ args.down = 0
    /\ ret.raw[1] < 0
    /\ ret.raw[2] < 0
    /\ ret.shifts[1] < 0
    /\ ret.shifts[2] > 0

\* C10 (as the code has it): through blend with a named method the strategy
\* receives exactly the method's allowed options; a supplied option arrives
\* with the caller's value, alpha rounded to single precision; an omitted one
\* arrives as the dispatcher default (alpha 1, blur 0.4, margin 50, depth 4);
\* called directly, a strategy uses its own defaults (alpha 0.4, margin 100,
\* blur 0.4, depth 4) for what is omitted.
C10_OptionsReceived ==
    LET Allowed(name) == IF name = "alpha" THEN {"alpha"}
                         ELSE IF name = "pyramid" THEN {"blur", "margin", "depth"}
                         ELSE {}
        Dispatcher(k) == IF k = "alpha" THEN RInt(1) ELSE IF k = "blur" THEN Rat(2, 5)
                         ELSE IF k = "margin" THEN RInt(50) ELSE RInt(4)
        Own(k) == IF k = "alpha" THEN Rat(2, 5) ELSE IF k = "blur" THEN Rat(2, 5)
                  ELSE IF k = "margin" THEN RInt(100) ELSE RInt(4)
        name == args.method.name
        given == DOMAIN args.kwargs
    IN  /\ (/\ op = "blend"
            /\ args.method.kind = "str"
            /\ name \in {"alpha", "max", "min", "poisson", "pyramid"}
            /\ given \subseteq Allowed(name))
               => /\ DOMAIN ret.recv = Allowed(name)
                  /\ \A k \in Allowed(name) :
                        ret.recv[k] = (IF k \notin given THEN Dispatcher(k)
                                       ELSE IF k = "alpha" THEN AsFloat32(args.kwargs[k])
                                       ELSE args.kwargs[k])
        /\ op = "strategy"
               => /\ DOMAIN ret.recv = Allowed(name)
                  /\ \A k \in Allowed(name) :
                        ret.recv[k] = (IF k \in given THEN args.kwargs[k] ELSE Own(k))

\* C10 as stated: every option the caller supplied to blend reaches the
\* strategy with the caller's value.
C10_SuppliedKeepsValue ==
    (/\ op = "blend"
     /\ args.method.kind = "str"
     /\ ret.status = "ok")
        => \A k \in DOMAIN args.kwargs : ret.recv[k] = args.kwargs[k]

\* C10 happens: blend('alpha') with an alpha single precision cannot hold.
C10_Witness ==
    /\ op = "blend"
    /\ args.method = [kind |-> "str", name |-> "alpha"]
    /\ "alpha" \in DOMAIN args.kwargs
    /\ args.kwargs["alpha"] = HalfPlus
    /\ ret.status = "ok"
    /\ ret.recv["alpha"] = Rat(1, 2)

\* C11: for every pair of images and every shift, the alpha blend with
\* alpha = 1 is the canvas arrange(img1, img2, shift, order=1) pixel for pixel
\* and the alpha blend with alpha = 0 is arrange(img1, img2, shift, order=2)
\* pixel for pixel, the pixels that carry the no-data sentinel included.
C11_AlphaEndpoints ==
    (/\ op \in {"strategy", "blend"}
     /\ args.method = [kind |-> "str", name |-> "alpha"]
     /\ ret.status = "ok")
        => /\ ret.recv["alpha"] = RInt(1)
                 => ret.out = arrange_image(args.img1, args.img2, args.shift, 1)
           /\ ret.recv["alpha"] = RInt(0)
                 => ret.out = arrange_image(args.img1, args.img2, args.shift, 2)

\* C11 happens: alpha = 0 on an overlap where the two canvases differ, with a
\* pixel without data on the canvas.
C11_Witness ==
    /\ op = "strategy"
    /\ args.method.name = "alpha"
    /\ ret.recv["alpha"] = RInt(0)
    /\ ret.out = arrange_image(args.img1, args.img2, args.shift, 2)
    /\ ret.out # arrange_image(args.img1, args.img2, args.shift, 1)
    /\ \E c \in DOMAIN ret.out.px : ret.out.px[c] = NaN

\* C12: PyramidBlend called with a shift whose magnitude is below margin on
\* both axes returns the arranged canvas as the arranger produced it: only the
\* arranger ran, no buffer, pyramid or paste, img1 is as it was and no pixel
\* differs.
C12_BelowMarginIsArranged ==
    (/\ op \in {"strategy", "blend"}
     /\ args.method = [kind |-> "str", name |-> "pyramid"]
     /\ ret.recv # <<>>
     /\ Abs(args.shift[1]) < ret.recv["margin"].n
     /\ Abs(args.shift[2]) < ret.recv["margin"].n)
        => /\ ret.status = "ok"
           /\ ret.calls = <<"arrange_image">>
           /\ ret.aux = NoAux
           /\ ret.out = arrange_image(args.img1, args.img2, args.shift, 1)
           /\ img1 = args.img1

\* C12 happens: a shift of one pixel on both axes under a margin of two, on an
\* img1 that holds a pixel without data.
C12_Witness ==
    /\ op = "strategy"
    /\ args.method.name = "pyramid"
    /\ args.shift = <<1, 1>>
    /\ ret.recv["margin"] = RInt(2)
    /\ \E c \in DOMAIN args.img1.px : args.img1.px[c] = NaN
    /\ ret.calls = <<"arrange_image">>

\* C13: register_translation called with one non-degenerate image as both
\* src and target, and no search window, returns the shift (0, 0) together
\* with an error and a phase difference, for every upsample factor.
C13_SelfRegistration ==
    (/\ op = "register"
     /\ args.same
     /\ args.rangeX = <<>>
     /\ args.rangeY = <<>>
     /\ \E c, d \in DOMAIN args.image.px : args.image.px[c] # args.image.px[d])
        => /\ ret.status = "ok"
           /\ ret.shifts = <<0, 0>>
           /\ ret.parts = <<"shifts", "error", "phasediff">>

\* C14: whenever PyramidBlend goes past the early return, the mask it starts
\* the pyramids from is split at the overlap's midline: the columns left of
\* wid_hor / 2 when the overlap is on the left, the rows above wid_ver / 2
\* when it is on top, are 0 (img1's), the rest is 1 (img2's); the mask is
\* never all ones.
C14_MaskSplitAtMidline ==
    (/\ op \in {"strategy", "blend"}
     /\ args.method = [kind |-> "str", name |-> "pyramid"]
     /\ ret.aux.kind = "pyramid"
     /\ ret.aux.mask2.h > 0
     /\ ret.aux.mask2.w > 0)
        => LET g     == ret.aux.geo
               mask2 == ret.aux.mask2
               left  == Abs(args.shift[2]) >= ret.recv["margin"].n
               top   == Abs(args.shift[1]) >= ret.recv["margin"].n
           IN  /\ \A c \in Cells(mask2.h, mask2.w) :
                      mask2.px[c] = (IF \/ (left /\ c[2] < g.wid_hor \div 2)
                                        \/ (top /\ c[1] < g.wid_ver \div 2)
                                     THEN 0 ELSE 1)
               /\ \E c \in Cells(mask2.h, mask2.w) : mask2.px[c] = 0

\* C15 (as the code has it): in an active PoissonBlend the unknowns of
\* A x = b are the pixels strictly inside img2's rectangle and no others; a
\* pixel on the edge of the rectangle with no data on the canvas next to it
\* across that edge is not an unknown: it comes out with the value of the
\* Gaussian-blurred img2 at that pixel, a fixed boundary value.
C15_EdgeWithoutDataIsBlurred ==
    (/\ op \in {"strategy", "blend"}
     /\ args.method = [kind |-> "str", name |-> "poisson"]
     /\ ret.status = "ok"
     /\ (Abs(args.shift[1]) >= 10 \/ Abs(args.shift[2]) >= 10))
        => LET a2 == args.img2
               y0 == args.shift[1]
               x0 == args.shift[2]
               canvas == arrange_image(args.img1, a2, args.shift, 1)
               Data(y, x) == /\ y >= 0 /\ y < canvas.h /\ x >= 0 /\ x < canvas.w
                             /\ canvas.px[<<y, x>>] # NaN
               Outside(c) ==
                   (IF c[1] = 0 THEN {<<y0 - 1, x0 + c[2]>>} ELSE {})
                     \cup (IF c[1] = a2.h - 1 THEN {<<y0 + a2.h, x0 + c[2]>>} ELSE {})
                     \cup (IF c[2] = 0 THEN {<<y0 + c[1], x0 - 1>>} ELSE {})
                     \cup (IF c[2] = a2.w - 1 THEN {<<y0 + c[1], x0 + a2.w>>} ELSE {})
               OnEdge(c) == c[1] = 0 \/ c[1] = a2.h - 1 \/ c[2] = 0 \/ c[2] = a2.w - 1
               blurred(c) == IF \E d \in DOMAIN a2.px : a2.px[d] = NaN THEN NaN
                             ELSE 1000 + 16 * c[1] + c[2]
           IN  /\ ret.aux.unknown = {c \in Cells(a2.h, a2.w) : ~OnEdge(c)}
               /\ DOMAIN ret.aux.b = 0 .. Cardinality(ret.aux.unknown) - 1
               /\ \A c \in Cells(a2.h, a2.w) :
                      (OnEdge(c) /\ ~\E o \in Outside(c) : Data(o[1], o[2]))
                          => /\ c \notin ret.aux.unknown
                             /\ ret.out.px[<<y0 + c[1], x0 + c[2]>>] = blurred(c)

\* C15 as stated: a pixel on the edge of the rectangle with no data next to
\* it outside the rectangle is one of the unknowns of A x = b and comes out
\* with the solved value.
C15_EdgeWithoutDataIsUnknown ==
    (/\ op \in {"strategy", "blend"}
     /\ args.method = [kind |-> "str", name |-> "poisson"]
     /\ ret.status = "ok"
     /\ (Abs(args.shift[1]) >= 10 \/ Abs(args.shift[2]) >= 10))
        => LET a2 == args.img2
               y0 == args.shift[1]
               x0 == args.shift[2]
               canvas == arrange_image(args.img1, a2, args.shift, 1)
               Data(y, x) == /\ y >= 0 /\ y < canvas.h /\ x >= 0 /\ x < canvas.w
                             /\ canvas.px[<<y, x>>] # NaN
               Outside(c) ==
                   (IF c[1] = 0 THEN {<<y0 - 1, x0 + c[2]>>} ELSE {})
                     \cup (IF c[1] = a2.h - 1 THEN {<<y0 + a2.h, x0 + c[2]>>} ELSE {})
                     \cup (IF c[2] = 0 THEN {<<y0 + c[1], x0 - 1>>} ELSE {})
                     \cup (IF c[2] = a2.w - 1 THEN {<<y0 + c[1], x0 + a2.w>>} ELSE {})
               OnEdge(c) == c[1] = 0 \/ c[1] = a2.h - 1 \/ c[2] = 0 \/ c[2] = a2.w - 1
           IN  \A c \in Cells(a2.h, a2.w) :
                   (OnEdge(c) /\ ~\E o \in Outside(c) : Data(o[1], o[2]))
                       => /\ c \in ret.aux.unknown
                          /\ ret.out.px[<<y0 + c[1], x0 + c[2]>>] \in {2000 + k : k \in DOMAIN ret.aux.b}

\* C15 happens: an active blend whose rectangle has edge pixels without data
\* beside them, one of them filled from the blurred img2, next to unknowns
\* that were solved for.
C15_Witness ==
    /\ op = "strategy"
    /\ args.method.name = "poisson"
    /\ ret.status = "ok"
    /\ ret.aux.kind = "poisson"
    /\ ret.aux.unknown # {}
    /\ \E c \in ret.aux.gap :
           /\ c[2] = args.img2.w - 1
           /\ ret.out.px[<<args.shift[1] + c[1], args.shift[2] + c[2]>>] = BlurVal(c[1], c[2])

\* C16: the integer peak location p on an axis of length n becomes a signed
\* shift by wrapping past the midpoint: p <= floor(n / 2) gives p and
\* p > floor(n / 2) gives p - n; so with upsample_factor = 1 every component
\* of the shift, before the forward axis is made non-negative, lies in
\* [-(ceil(n / 2) - 1), floor(n / 2)].
C16_WrapPastMidpoint ==
    (op = "register" /\ ret.status = "ok")
        => \A i \in DOMAIN args.src_shape :
               LET n == args.src_shape[i]
                   p == args.maxima[i]
                   signed == IF p <= n \div 2 THEN p ELSE p - n
               IN  /\ args.upsample_factor = 1
                         => /\ ret.raw[i] = signed
                            /\ ret.raw[i] >= -((n + 1) \div 2 - 1)
                            /\ ret.raw[i] <= n \div 2
                   /\ (args.upsample_factor > 1 /\ n > 1)
                         => ret.raw[i] = signed * args.upsample_factor
                                           + args.up_maxima[i] - args.upsample_factor

\* C16 happens: a peak at the midpoint of one axis and past the midpoint of
\* the other, on an even and on an odd axis.
C16_Witness ==
    /\ op = "register"
    /\ ret.status = "ok"
    /\ args.upsample_factor = 1
    /\ args.src_shape = <<MaxDim - 1, MaxDim>>
    /\ args.maxima[1] = (MaxDim - 1) \div 2 + 1
    /\ args.maxima[2] = MaxDim \div 2
    /\ ret.raw[1] < 0
    /\ ret.raw[2] = MaxDim \div 2

C18_PyramidShapes ==
    LET Halving(gs, d) ==
            /\ Len(gs) = d + 1
            /\ \A i \in 1 .. d :
                   LET e == ExpandShape(gs[i + 1])
                   IN  /\ gs[i + 1] = <<(gs[i][1] + 1) \div 2, (gs[i][2] + 1) \div 2>>
                       /\ e[1] - gs[i][1] \in {0, 1}
                       /\ e[2] - gs[i][2] \in {0, 1}
                       /\ TrimShape(e, gs[i]) = gs[i]
    IN  /\ op = "roundtrip"
            => /\ ret.gauss[1] = Shape(args.image)
               /\ Halving(ret.gauss, args.depth)
               /\ ret.lapl = ret.gauss
               /\ CollapseShape(ret.lapl) = Shape(args.image)
               /\ Shape(ret.out) = Shape(args.image)
        /\ (op \in {"strategy", "blend"} /\ ret.aux # NoAux /\ ret.aux.kind = "pyramid")
            => LET d == ret.recv["depth"].n
                   levels == <<ret.aux.gauss_mask, ret.aux.gauss1, ret.aux.gauss2>>
                   start == <<Shape(ret.aux.mask2), Shape(ret.aux.buffer1), Shape(ret.aux.buffer2)>>
               IN  /\ \A k \in 1 .. 3 :
                          (start[k][1] >= 1 /\ start[k][2] >= 1)
                              => /\ levels[k][1] = start[k]
                                 /\ Halving(levels[k], d)
                                 /\ Len(LaplShapes(levels[k])) = d + 1
                                 /\ LaplShapes(levels[k]) = levels[k]
                                 /\ CollapseShape(LaplShapes(levels[k])) = start[k]
                   /\ Len(ret.aux.blended) = d + 1

\* C18 happens: a pyramid of depth two on a buffer with odd sides, where both
\* expansions overshoot by a row and a column and are trimmed, collapsed back
\* to the buffer's shape.
C18_Witness ==
    /\ op = "roundtrip"
    /\ args.depth = 2
    /\ Shape(args.image) = <<3, 3>>
    /\ ret.gauss = <<<<3, 3>>, <<2, 2>>, <<1, 1>>>>
    /\ ExpandShape(ret.gauss[2]) = <<4, 4>>
    /\ Len(ret.lapl) = 3
    /\ Shape(ret.out) = <<3, 3>>

\* C19: before PyramidBlend builds any pyramid every pixel without data has
\* been replaced: the buffer cut from image1 and the buffer cut from image2
\* hold none (they hold 0 there) and the mask holds none (it holds 1 there).
C19_NoSentinelInBuffers ==
    (op \in {"strategy", "blend"} /\ ret.aux # NoAux /\ ret.aux.kind = "pyramid")
        => /\ \A c \in DOMAIN ret.aux.buffer1.px : ~IsNan(ret.aux.buffer1.px[c])
           /\ \A c \in DOMAIN ret.aux.buffer2.px : ~IsNan(ret.aux.buffer2.px[c])
           /\ \A c \in DOMAIN ret.aux.mask2.px : ~IsNan(ret.aux.mask2.px[c])

\* C20: in each of the three overlap cases of PyramidBlend (top and left, top
\* only, left only), for every pair of image shapes and every shift that
\* passes the early return, the buffer cut from image1, the buffer cut from
\* image2 and the mask have one and the same non-empty shape, so neither the
\* blend of the levels nor the paste into the canvas combines arrays of
\* different shapes.
C20_BuffersShareShape ==
    (/\ op \in {"strategy", "blend"}
     /\ args.method = [kind |-> "str", name |-> "pyramid"]
     /\ ret.recv # <<>>
     /\ ~(/\ Abs(args.shift[1]) < ret.recv["margin"].n
          /\ Abs(args.shift[2]) < ret.recv["margin"].n))
        => /\ ret.aux # NoAux
           /\ Shape(ret.aux.buffer1) = Shape(ret.aux.mask2)
           /\ Shape(ret.aux.buffer2) = Shape(ret.aux.mask2)
           /\ Shape(ret.aux.mask2)[1] >= 1
           /\ Shape(ret.aux.mask2)[2] >= 1
           /\ ret.status = "ok"

====
